---- MODULE Spec2Model ----
(***************************************************************************)
(* State machine of WebRTCSignalingServer (src/src/WatchApp.tsx, lines     *)
(* 151-633): the connection registry, the signaling dispatcher, the        *)
(* server-mediated offer/answer negotiation, media track set-up, the HLS   *)
(* transcode orchestration and disconnect cleanup.                         *)
(*                                                                         *)
(* A connection (one accepted WebSocket together with the ClientConnection *)
(* object built for it) is identified by its creation index.  The registry *)
(* `clients` is a JavaScript Map: a sequence of entries in insertion order,*)
(* keyed by client id.                                                     *)
(***************************************************************************)
EXTENDS Integers, Sequences, FiniteSets

\* ------------------------------------------------------------------ bounds
MaxConns == 3     \* WebSocket connections accepted during a run
MaxOffers == 2    \* server-offer messages that start a negotiation during a run
MaxTracks == 2    \* ontrack events that open streams during a run
MaxCloses == 1    \* accepted sockets that close during a run at no cost in load
MaxLoad == 6      \* connections + negotiations + stream-opening tracks + faults
                  \* + streams written + further socket closes during a run
MaxFaults == 1    \* injected faults during a run: a malformed offer, a socket
                  \* error, an ffmpeg exit, a send that throws

\* ------------------------------------------------------------------ inputs
NoId == 0                      \* an absent (undefined / null) identifier
ClientIds == {1, 2, 3}         \* client ids offered as ?clientId=
Conns == 1..MaxConns
RelayTypes == {"direct-offer", "direct-answer", "direct-candidate"}
Kinds == {"video", "audio"}

VARIABLES
  conns,     \* connection index -> the socket and its ClientConnection object
  clients,   \* the Map<string, ClientConnection>: entries in insertion order
  sent,      \* the ws.send calls made by the handler that ran last, in order
  tasks,     \* one per handleServerOffer invocation: its RTCPeerConnection
  streams,   \* every write stream opened by createWriteStream
  procs,     \* every ffmpeg process spawned
  timers,    \* client id -> pending setTimeout(startHLSProcessing) callbacks
  last,      \* the step just taken, when it handled a peer-to-peer signaling
             \* message or called startHLSProcessing
  faults     \* faults injected so far

vars == <<conns, clients, sent, tasks, streams, procs, timers, last, faults>>

\* ------------------------------------------------------------- data shapes
\* SignalingMessage (lines 122-138), flattened: type and the payload fields.
Msg(type, to, from, cid, sdp, cand) ==
  [type |-> type, toPeerID |-> to, fromPeerID |-> from, clientId |-> cid,
   sdp |-> sdp, candidate |-> cand]

NoSdp == [kind |-> "none", ok |-> FALSE, pc |-> 0]
OfferSdp(ok) == [kind |-> "offer", ok |-> ok, pc |-> 0]
\* pc.localDescription.sdp of the peer connection created by task t
AnswerSdp(t) == [kind |-> "answer", ok |-> TRUE, pc |-> t]

NoMsg == Msg("none", NoId, NoId, NoId, NoSdp, "none")

\* ClientConnection (lines 140-149, 201-205) plus the state of its socket.
NewConn ==
  [status |-> "new", id |-> NoId, ws |-> "NONE", ev |-> "none", errored |-> FALSE,
   closeCode |-> 0,
   peerConnection |-> 0, video |-> 0, audio |-> 0, ffmpegProcess |-> 0]

\* ------------------------------------------------------------ the registry
\* this.clients.get(id): the connection index registered under id, 0 if none
Lookup(id) ==
  IF \E i \in 1..Len(clients) : clients[i].id = id
    THEN clients[CHOOSE i \in 1..Len(clients) : clients[i].id = id].conn
    ELSE 0

\* this.clients.set(id, k): a present key keeps its position, its value is replaced
MapSet(m, id, k) ==
  IF \E i \in 1..Len(m) : m[i].id = id
    THEN [i \in 1..Len(m) |-> IF m[i].id = id THEN [id |-> id, conn |-> k] ELSE m[i]]
    ELSE Append(m, [id |-> id, conn |-> k])

\* this.clients.delete(id)
MapDelete(m, id) == SelectSeq(m, LAMBDA e : e.id # id)

IsOpen(k) == conns[k].ws = "OPEN"

\* ws.send(JSON.stringify(msg)) on each connection of `targets`, in order
Sends(targets, msg) ==
  [i \in 1..Len(targets) |->
     [to |-> targets[i], open |-> IsOpen(targets[i]), msg |-> msg]]

ConnsOf(entries) == [i \in 1..Len(entries) |-> entries[i].conn]

\* `last` after the handler of peer-to-peer message msg ran for connection k
Handled(k, msg) ==
  [op |-> "message", conn |-> k, id |-> conns[k].id, msg |-> msg, spawned |-> 0,
   pc |-> 0]

\* `last` after handleServerCandidate ran for connection k and called
\* addIceCandidate on peer connection t (0: returned at its guard)
HandledCandidate(k, msg, t) ==
  [op |-> "message", conn |-> k, id |-> conns[k].id, msg |-> msg, spawned |-> 0,
   pc |-> t]

\* `last` after a call of startHLSProcessing(clientId) that spawned n processes
Started(clientId, n) ==
  [op |-> "startHLS", conn |-> 0, id |-> clientId, msg |-> NoMsg, spawned |-> n,
   pc |-> 0]

\* `last` after any other step
NoMessage ==
  [op |-> "none", conn |-> 0, id |-> NoId, msg |-> NoMsg, spawned |-> 0, pc |-> 0]

\* ----------------------------------------------------------- run budgets
\* ontrack events that opened streams so far
NTracks == Cardinality({s \in 1..Len(streams) : streams[s].kind \in {"h264", "audio"}})

\* accepted sockets that have left OPEN
NCloses == Cardinality({k \in Conns : conns[k].status = "live" /\ conns[k].ws # "OPEN"})

\* write streams that have received data so far
NWritten == Cardinality({s \in 1..Len(streams) : streams[s].written})

\* connections accepted, negotiations started, stream-opening tracks, faults,
\* streams written and socket closes beyond the first MaxCloses so far
Load ==
  Cardinality({k \in Conns : conns[k].status # "new"}) + Len(tasks) + NTracks
  + faults + NWritten + (IF NCloses > MaxCloses THEN NCloses - MaxCloses ELSE 0)

\* ------------------------------------------------------------------- Init
Init ==
  /\ conns = [k \in Conns |-> NewConn]
  /\ clients = <<>>
  /\ sent = <<>>
  /\ tasks = <<>>
  /\ streams = <<>>
  /\ procs = <<>>
  /\ timers = [i \in ClientIds |-> 0]
  /\ last = NoMessage
  /\ faults = 0

\* ------------------------------------------------------------- connection
\* wss.on("connection"): refuse without a clientId, else build the
\* ClientConnection, clients.set it and install the three handlers.
Connect(k, id) ==
  /\ conns[k].status = "new"
  /\ \A j \in Conns : j < k => conns[j].status # "new"
  /\ \A i \in ClientIds : i < id => \E j \in Conns : conns[j].id = i
  /\ Load < MaxLoad
  /\ IF id = NoId
       THEN /\ conns' = [conns EXCEPT ![k].status = "refused", ![k].ws = "CLOSED",
                                      ![k].closeCode = 1008]
            /\ UNCHANGED clients
       ELSE /\ conns' = [conns EXCEPT ![k].status = "live", ![k].id = id,
                                      ![k].ws = "OPEN"]
            /\ clients' = MapSet(clients, id, k)
  /\ last' = NoMessage
  /\ sent' = <<>>
  /\ UNCHANGED <<tasks, streams, procs, timers, faults>>

\* A message event delivered to a handler on every socket that connected,
\* as if the handlers were installed before the clientId test
CanReceiveOnAnySocket(k) == conns[k].status # "new"

\* A message event is delivered to the handler of an open, accepted socket.
CanReceive(k) ==
  /\ conns[k].status = "live"
  /\ IsOpen(k)

\* Peer-to-peer signaling (discovery, relay) reads only the registry and the
\* sockets; it is explored in every registry and socket configuration, in
\* the runs where no server-mediated negotiation has started.
Quiet == tasks = <<>>

\* ---------------------------------------------------------- peer discovery
\* handleInitiateP2P without the `clientId !== fromClientId` test
DiscoveryTargetsAll(fromClientId) ==
  ConnsOf(SelectSeq(clients, LAMBDA e : IsOpen(e.conn)))

\* handleInitiateP2P: the registry entries notified, in Map order
DiscoveryTargets(fromClientId) ==
  ConnsOf(SelectSeq(clients, LAMBDA e : e.id # fromClientId /\ IsOpen(e.conn)))

DiscoveryMsg(fromClientId) ==
  Msg("signal-initiate-p2p", NoId, fromClientId, NoId, NoSdp, "none")

\* handleSignalingMessage, case "signal-initiate-p2p"
SignalInitiateP2P(k) ==
  /\ CanReceive(k)
  /\ Quiet
  /\ LET id == conns[k].id
         m == Msg("signal-initiate-p2p", NoId, NoId, id, NoSdp, "none")
     IN  /\ IF Lookup(id) = 0
              THEN sent' = <<>>
              ELSE sent' = Sends(DiscoveryTargets(id), DiscoveryMsg(id))
         /\ last' = Handled(k, m)
  /\ UNCHANGED <<conns, clients, tasks, streams, procs, timers, faults>>

\* ------------------------------------------------------------- direct relay
\* relayP2PMessage without the readyState test
RelayTargetAnyState(message) ==
  IF message.toPeerID = NoId THEN 0 ELSE Lookup(message.toPeerID)

\* relayP2PMessage: the connection the message is forwarded to, 0 when it is
\* dropped (no toPeerID, target not registered, target socket not OPEN)
RelayTarget(message) ==
  IF message.toPeerID = NoId THEN 0
  ELSE IF Lookup(message.toPeerID) = 0 THEN 0
  ELSE IF IsOpen(Lookup(message.toPeerID)) THEN Lookup(message.toPeerID)
  ELSE 0

\* relayP2PMessage stamping fromPeerID only when the sender supplied none
RelayMessageKeep(fromClientId, message) ==
  IF message.fromPeerID = NoId
    THEN [message EXCEPT !.fromPeerID = fromClientId]
    ELSE message

\* relayP2PMessage: { ...message, payload: { ...message.payload, fromPeerID } }
RelayMessage(fromClientId, message) ==
  [message EXCEPT !.fromPeerID = fromClientId]

\* handleSignalingMessage, cases "direct-offer", "direct-answer", "direct-candidate"
RelayP2P(k, type, to, from) ==
  /\ CanReceive(k)
  /\ Quiet
  /\ LET id == conns[k].id
         m == Msg(type, to, from, NoId,
                  IF type = "direct-candidate" THEN NoSdp ELSE OfferSdp(TRUE),
                  IF type = "direct-candidate" THEN "good" ELSE "none")
         tgt == IF Lookup(id) = 0 THEN 0 ELSE RelayTarget(m)
     IN  /\ IF tgt = 0
              THEN sent' = <<>>
              ELSE sent' = Sends(<<tgt>>, RelayMessage(id, m))
         /\ last' = Handled(k, m)
  /\ UNCHANGED <<conns, clients, tasks, streams, procs, timers, faults>>

\* ------------------------------------------------- server-mediated session
\* handleServerOffer up to its first await: look the client up, create the
\* RTCPeerConnection, store it in client.peerConnection, install onicecandidate
\* and ontrack, call setRemoteDescription.
ServerOffer(k, sdp) ==
  /\ CanReceive(k)
  /\ LET id == conns[k].id
         c == Lookup(id)
         m == Msg("server-offer", NoId, NoId, NoId, sdp, "none")
     IN  IF c = 0 \/ sdp.kind = "none"
           THEN /\ UNCHANGED <<conns, tasks, faults>>
                /\ last' = NoMessage
           ELSE /\ Len(tasks) < MaxOffers
                /\ Load < MaxLoad
                /\ ~sdp.ok => (faults < MaxFaults /\ Load + 1 < MaxLoad)
                /\ faults' = IF sdp.ok THEN faults ELSE faults + 1
                /\ tasks' = Append(tasks, [conn |-> c, id |-> id, sdp |-> sdp,
                                           stage |-> "setRemote", closed |-> FALSE])
                /\ conns' = [conns EXCEPT ![c].peerConnection = Len(tasks) + 1]
                /\ last' = NoMessage
  /\ sent' = <<>>
  /\ UNCHANGED <<clients, streams, procs, timers>>

Awaiting(t) == tasks[t].stage \in {"setRemote", "createAnswer", "setLocal"}

\* the answer sent on the connection of the client that offered last, as if
\* `client` were shared by the handler invocations
AnswerTargetOfLastOffer(t) == tasks[Len(tasks)].conn

\* the connection the answer is sent on: the `client` captured by the handler
AnswerTarget(t) == tasks[t].conn

\* the answer read from client.peerConnection instead of the handler's own pc
AnswerMsgOfClient(t) ==
  Msg("server-answer", NoId, NoId, NoId,
      AnswerSdp(conns[tasks[t].conn].peerConnection), "none")

\* { type: "server-answer", payload: { sdp: pc.localDescription?.sdp } }
AnswerMsg(t) == Msg("server-answer", NoId, NoId, NoId, AnswerSdp(t), "none")

\* An awaited negotiation step of handleServerOffer resolves.  After
\* setLocalDescription the answer is sent with client.ws.send, unguarded by
\* readyState: on a socket that is not OPEN the send either throws (caught by
\* the handler's catch) or is discarded by the socket.
OfferResolve(t, throws) ==
  /\ t \in 1..Len(tasks)
  /\ Awaiting(t)
  /\ ~(tasks[t].stage = "setRemote" /\ ~tasks[t].sdp.ok)
  /\ throws => (tasks[t].stage = "setLocal" /\ ~IsOpen(AnswerTarget(t))
                 /\ faults < MaxFaults /\ Load < MaxLoad)
  /\ faults' = IF throws THEN faults + 1 ELSE faults
  /\ CASE tasks[t].stage = "setRemote" ->
            /\ tasks' = [tasks EXCEPT ![t].stage = "createAnswer"]
            /\ sent' = <<>>
            /\ last' = NoMessage
       [] tasks[t].stage = "createAnswer" ->
            /\ tasks' = [tasks EXCEPT ![t].stage = "setLocal"]
            /\ sent' = <<>>
            /\ last' = NoMessage
       [] tasks[t].stage = "setLocal" /\ throws ->
            /\ tasks' = [tasks EXCEPT ![t].stage = "failed"]
            /\ sent' = <<>>
            /\ last' = NoMessage
       [] tasks[t].stage = "setLocal" /\ ~throws ->
            /\ tasks' = [tasks EXCEPT ![t].stage = "done"]
            /\ sent' = Sends(<<AnswerTarget(t)>>, AnswerMsg(t))
            /\ last' = NoMessage
  /\ UNCHANGED <<conns, clients, streams, procs, timers>>

\* An awaited negotiation step rejects; the catch block logs the error.
OfferReject(t) ==
  /\ t \in 1..Len(tasks)
  /\ Awaiting(t)
  /\ (tasks[t].stage = "setRemote" /\ ~tasks[t].sdp.ok) \/ tasks[t].closed
  /\ tasks' = [tasks EXCEPT ![t].stage = "failed"]
  /\ last' = NoMessage
  /\ sent' = <<>>
  /\ UNCHANGED <<conns, clients, streams, procs, timers, faults>>

\* pc.onicecandidate: a local candidate is sent if the socket is OPEN
LocalCandidate(t) ==
  /\ t \in 1..Len(tasks)
  /\ tasks[t].stage = "setLocal"
  /\ sent' =
       (IF IsOpen(tasks[t].conn)
          THEN Sends(<<tasks[t].conn>>,
                     Msg("server-candidate", NoId, NoId, NoId, NoSdp, "good"))
          ELSE <<>>)
  /\ last' = NoMessage
  /\ UNCHANGED <<conns, clients, tasks, streams, procs, timers, faults>>

\* handleServerCandidate finding the peer connection by the client id of the
\* negotiation instead of reading client.peerConnection
CandidatePcOfId(clientId, cand) ==
  IF cand = "none" THEN 0
  ELSE IF \E t \in 1..Len(tasks) : tasks[t].id = clientId
    THEN CHOOSE t \in 1..Len(tasks) : tasks[t].id = clientId
    ELSE 0

\* handleServerCandidate: the peer connection addIceCandidate is called on,
\* 0 when the handler returns at its guard
CandidatePc(clientId, cand) ==
  IF Lookup(clientId) = 0 THEN 0
  ELSE IF cand = "none" THEN 0
  ELSE conns[Lookup(clientId)].peerConnection

\* handleSignalingMessage, case "server-candidate" -> handleServerCandidate:
\* addIceCandidate on the client's peer connection; the candidate goes into
\* that peer connection and a rejection is caught and logged, so nothing of
\* the server's own state changes.
ServerCandidate(k, cand) ==
  /\ CanReceive(k)
  /\ streams = <<>>
  /\ LET id == conns[k].id
         m == Msg("server-candidate", NoId, NoId, NoId, NoSdp, cand)
     IN  last' = HandledCandidate(k, m, CandidatePc(id, cand))
  /\ sent' = <<>>
  /\ UNCHANGED <<conns, clients, tasks, streams, procs, timers, faults>>

\* ------------------------------------------------------------ media ingest
\* pc.ontrack -> handleIncomingTrack -> setupVideoProcessing / setupAudioProcessing
Track(t, kind) ==
  /\ t \in 1..Len(tasks)
  /\ tasks[t].sdp.ok
  /\ LET id == tasks[t].id
         c == Lookup(id)
         n == Len(streams)
     IN  IF c = 0
           THEN /\ UNCHANGED <<conns, streams, timers>>
                /\ last' = NoMessage
           ELSE IF kind = "video"
             THEN /\ NTracks < MaxTracks /\ Load < MaxLoad
                  /\ streams' = streams \o
                       << [conn |-> c, kind |-> "h264", ended |-> FALSE,
                           written |-> FALSE],
                          [conn |-> c, kind |-> "ivf", ended |-> FALSE,
                           written |-> FALSE] >>
                  /\ conns' = [conns EXCEPT ![c].video = n + 1]
                  /\ timers' = [timers EXCEPT ![id] = @ + 1]
                  /\ last' = NoMessage
             ELSE /\ NTracks < MaxTracks /\ Load < MaxLoad
                  /\ streams' = Append(streams,
                                       [conn |-> c, kind |-> "audio", ended |-> FALSE,
                                        written |-> FALSE])
                  /\ conns' = [conns EXCEPT ![c].audio = n + 1]
                  /\ UNCHANGED timers
                  /\ last' = NoMessage
  /\ sent' = <<>>
  /\ UNCHANGED <<clients, tasks, procs, faults>>

\* track.onReceiveRtp of the track that opened stream s: the streams the
\* callback writes to.  A video packet goes to the h264 stream and, with
\* payload type 96 or 97 (vp), to the ivf stream opened with it; an audio
\* packet goes to the audio stream.
PacketSinks(s, vp) ==
  IF streams[s].kind = "h264" THEN (IF vp THEN {s, s + 1} ELSE {s}) ELSE {s}

\* track.onReceiveRtp: stream.write on each sink; a write on a stream that
\* has been ended fails and leaves the file as it is.
Packet(s, vp) ==
  /\ s \in 1..Len(streams)
  /\ streams[s].kind \in {"h264", "audio"}
  /\ streams[s].kind = "audio" => ~vp
  /\ LET hit == {w \in PacketSinks(s, vp) : ~streams[w].ended /\ ~streams[w].written}
     IN  /\ Load + Cardinality(hit) <= MaxLoad
         /\ streams' = [w \in 1..Len(streams) |->
                          IF w \in hit THEN [streams[w] EXCEPT !.written = TRUE]
                                        ELSE streams[w]]
  /\ last' = NoMessage
  /\ sent' = <<>>
  /\ UNCHANGED <<conns, clients, tasks, procs, timers, faults>>

\* ----------------------------------------------------- transcode orchestrator
\* Array.from(this.clients...).filter(c => c.peerConnection), in Map order
ActiveClients == SelectSeq(clients, LAMBDA e : conns[e.conn].peerConnection # 0)

\* startHLSProcessing with the threshold off by one
IsCompositeAbove2 == Len(ActiveClients) > 2

\* startHLSProcessing: the composite branch is taken
IsComposite == Len(ActiveClients) >= 2

\* createSingleClientHLSStream: ffmpeg -i <id>/video.h264 -i <id>/audio.ogg ... playlist.m3u8
SingleJob(clientId) ==
  [kind |-> "single", video1 |-> clientId, video2 |-> NoId, audio |-> clientId,
   out |-> "playlist.m3u8", exited |-> FALSE, signalled |-> FALSE]

\* createCompositeHLSStream: the first two active clients; video of both, audio of the first
CompositeJob ==
  [kind |-> "composite", video1 |-> ActiveClients[1].id, video2 |-> ActiveClients[2].id,
   audio |-> ActiveClients[1].id,
   out |-> "playlist.m3u8", exited |-> FALSE, signalled |-> FALSE]

\* startHLSProcessing(clientId): the processes spawned and the handle stored
StartHLSProcessing(clientId) ==
  LET c == Lookup(clientId)
  IN  IF c = 0
        THEN UNCHANGED <<procs, conns>>
      ELSE IF conns[c].ffmpegProcess # 0
        THEN UNCHANGED <<procs, conns>>
      ELSE IF IsComposite
        THEN /\ procs' = Append(procs, CompositeJob)
             /\ UNCHANGED conns
        ELSE /\ procs' = Append(procs, SingleJob(clientId))
             /\ conns' = [conns EXCEPT ![c].ffmpegProcess = Len(procs) + 1]

\* the setTimeout callback of setupVideoProcessing fires
TimerFire(id) ==
  /\ timers[id] > 0
  /\ timers' = [timers EXCEPT ![id] = @ - 1]
  /\ StartHLSProcessing(id)
  /\ last' = Started(id, Len(procs') - Len(procs))
  /\ sent' = <<>>
  /\ UNCHANGED <<clients, tasks, streams, faults>>

\* an ffmpeg process errors or exits: both handlers only log
ProcExit(p) ==
  /\ p \in 1..Len(procs)
  /\ ~procs[p].exited
  /\ faults < MaxFaults
  /\ Load < MaxLoad
  /\ faults' = faults + 1
  /\ procs' = [procs EXCEPT ![p].exited = TRUE]
  /\ last' = NoMessage
  /\ sent' = <<>>
  /\ UNCHANGED <<conns, clients, tasks, streams, timers>>

\* --------------------------------------------------------------- disconnect
PeerDisconnectedMsg(clientId) ==
  Msg("peer-disconnected", NoId, NoId, clientId, NoSdp, "none")

\* handleClientDisconnect: the remaining entries notified, in Map order
DisconnectTargets(clientId) ==
  ConnsOf(SelectSeq(MapDelete(clients, clientId), LAMBDA e : IsOpen(e.conn)))

\* handleClientDisconnect: Object.values(client.mediaStreams), ended
EndedStreams(c) == {conns[c].video, conns[c].audio} \ {0}

\* handleClientDisconnect without its `if (!client) return`: the remaining
\* clients are notified even when clientId is not registered
HandleClientDisconnectUnguarded(clientId) ==
  LET c == Lookup(clientId)
  IN  IF c = 0
        THEN /\ sent' = Sends(DisconnectTargets(clientId),
                                      PeerDisconnectedMsg(clientId))
             /\ UNCHANGED <<clients, tasks, streams, procs>>
        ELSE /\ tasks' = [t \in 1..Len(tasks) |->
                            IF t = conns[c].peerConnection
                              THEN [tasks[t] EXCEPT !.closed = TRUE] ELSE tasks[t]]
             /\ streams' = [s \in 1..Len(streams) |->
                              IF s \in EndedStreams(c)
                                THEN [streams[s] EXCEPT !.ended = TRUE] ELSE streams[s]]
             /\ procs' = [p \in 1..Len(procs) |->
                            IF p = conns[c].ffmpegProcess
                              THEN [procs[p] EXCEPT !.signalled = TRUE] ELSE procs[p]]
             /\ clients' = MapDelete(clients, clientId)
             /\ sent' = Sends(DisconnectTargets(clientId),
                                      PeerDisconnectedMsg(clientId))

\* handleClientDisconnect(clientId)
HandleClientDisconnect(clientId) ==
  LET c == Lookup(clientId)
  IN  IF c = 0
        THEN /\ sent' = <<>>
             /\ UNCHANGED <<clients, tasks, streams, procs>>
        ELSE /\ tasks' = [t \in 1..Len(tasks) |->
                            IF t = conns[c].peerConnection
                              THEN [tasks[t] EXCEPT !.closed = TRUE] ELSE tasks[t]]
             /\ streams' = [s \in 1..Len(streams) |->
                              IF s \in EndedStreams(c)
                                THEN [streams[s] EXCEPT !.ended = TRUE] ELSE streams[s]]
             /\ procs' = [p \in 1..Len(procs) |->
                            IF p = conns[c].ffmpegProcess
                              THEN [procs[p] EXCEPT !.signalled = TRUE] ELSE procs[p]]
             /\ clients' = MapDelete(clients, clientId)
             /\ sent' = Sends(DisconnectTargets(clientId),
                                      PeerDisconnectedMsg(clientId))

\* the socket leaves OPEN; its "error" and/or "close" events are then due
WsClose(k, withError) ==
  /\ conns[k].status = "live"
  /\ IsOpen(k)
  /\ withError => faults < MaxFaults
  /\ Load + (IF NCloses < MaxCloses THEN 0 ELSE 1) + (IF withError THEN 1 ELSE 0)
       <= MaxLoad
  /\ faults' = IF withError THEN faults + 1 ELSE faults
  /\ conns' = [conns EXCEPT ![k].ws = "CLOSED",
                            ![k].ev = IF withError THEN "error" ELSE "close",
                            ![k].errored = withError]
  /\ last' = NoMessage
  /\ sent' = <<>>
  /\ UNCHANGED <<clients, tasks, streams, procs, timers>>

\* ws.on("error")
ErrorEvent(k) ==
  /\ conns[k].ev = "error"
  /\ HandleClientDisconnect(conns[k].id)
  /\ conns' = [conns EXCEPT ![k].ev = "close"]
  /\ last' = NoMessage
  /\ UNCHANGED <<timers, faults>>

\* ws.on("close")
CloseEvent(k) ==
  /\ conns[k].ev = "close"
  /\ HandleClientDisconnect(conns[k].id)
  /\ conns' = [conns EXCEPT ![k].ev = "done"]
  /\ last' = NoMessage
  /\ UNCHANGED <<timers, faults>>

Next ==
  \/ \E k \in Conns, id \in ClientIds \cup {NoId} : Connect(k, id)
  \/ \E k \in Conns : SignalInitiateP2P(k)
  \/ \E k \in Conns, type \in RelayTypes, to \in ClientIds \cup {NoId},
        from \in {NoId} \cup ClientIds : RelayP2P(k, type, to, from)
  \/ \E k \in Conns, ok \in BOOLEAN : ServerOffer(k, OfferSdp(ok))
  \/ \E k \in Conns : ServerOffer(k, NoSdp)
  \/ \E t \in 1..MaxOffers, throws \in BOOLEAN : OfferResolve(t, throws)
  \/ \E t \in 1..MaxOffers : OfferReject(t)
  \/ \E t \in 1..MaxOffers : LocalCandidate(t)
  \/ \E k \in Conns, cand \in {"none", "good", "bad"} : ServerCandidate(k, cand)
  \/ \E t \in 1..MaxOffers, kind \in Kinds : Track(t, kind)
  \/ \E s \in 1..(2 * MaxTracks), vp \in BOOLEAN : Packet(s, vp)
  \/ \E id \in ClientIds : TimerFire(id)
  \/ \E p \in 1..MaxTracks : ProcExit(p)
  \/ \E k \in Conns, withError \in BOOLEAN : WsClose(k, withError)
  \/ \E k \in Conns : ErrorEvent(k)
  \/ \E k \in Conns : CloseEvent(k)

Spec == Init /\ [][Next]_vars

\* ==================================================================== claims
\* connection k holds an entry of the registry
Registered(k) == \E i \in 1..Len(clients) : clients[i].conn = k

\* the connections a message of the last handler was sent to
SentTo == {sent[i].to : i \in 1..Len(sent)}

\* the last step handled a peer-to-peer message of one of `types`, sent by a
\* connection whose client id is registered
HandledP2P(types) ==
  /\ last.op = "message"
  /\ last.msg.type \in types
  /\ Lookup(last.id) # 0

\* C1: when registered client A sends the discovery-initiation message, each
\* other registered client whose socket is OPEN is sent exactly one discovery
\* notification carrying fromPeerID = A, nobody else is sent anything (A
\* itself included), and with no other client registered nothing is sent.
C1_DiscoveryReachesOthers ==
  HandledP2P({"signal-initiate-p2p"}) =>
    LET others == {k \in Conns : Registered(k) /\ conns[k].id # last.id
                                  /\ conns[k].ws = "OPEN"}
    IN  /\ SentTo = others
        /\ Len(sent) = Cardinality(others)
        /\ last.conn \notin SentTo
        /\ \A i \in 1..Len(sent) :
              /\ sent[i].open
              /\ conns[sent[i].to].id # last.id
              /\ sent[i].msg.type = "signal-initiate-p2p"
              /\ sent[i].msg.fromPeerID = last.id
        /\ (\A k \in Conns : Registered(k) => conns[k].id = last.id) => sent = <<>>

\* C1 witness: a discovery from A was delivered to two other clients, B and C
C1_Witness ==
  /\ HandledP2P({"signal-initiate-p2p"})
  /\ Cardinality(SentTo) = 2
  /\ Cardinality({k \in Conns : Registered(k)}) = 3

\* C2: a direct-offer, direct-answer or direct-candidate from registered
\* client A addressed to registered client B with an OPEN socket is sent to B
\* and to nobody else, as the message A sent except that payload.fromPeerID
\* is A, whatever A supplied.
C2_RelayStampsSender ==
  (/\ HandledP2P(RelayTypes)
   /\ last.msg.toPeerID # NoId
   /\ Lookup(last.msg.toPeerID) # 0
   /\ conns[Lookup(last.msg.toPeerID)].ws = "OPEN")
  => /\ Len(sent) = 1
     /\ sent[1].to = Lookup(last.msg.toPeerID)
     /\ sent[1].open
     /\ sent[1].msg.fromPeerID = last.id
     /\ sent[1].msg.type = last.msg.type
     /\ sent[1].msg.toPeerID = last.msg.toPeerID
     /\ sent[1].msg.clientId = last.msg.clientId
     /\ sent[1].msg.sdp = last.msg.sdp
     /\ sent[1].msg.candidate = last.msg.candidate

\* C2 witness: A supplied another client's id as fromPeerID and B was sent A's
C2_Witness ==
  /\ HandledP2P(RelayTypes)
  /\ last.msg.fromPeerID \notin {NoId, last.id}
  /\ Len(sent) = 1
  /\ conns[sent[1].to].id = last.msg.toPeerID
  /\ sent[1].to # last.conn
  /\ sent[1].msg.fromPeerID = last.id

\* the relay message of the last step has no deliverable target
NoRelayTarget(msg) ==
  \/ msg.toPeerID = NoId
  \/ Lookup(msg.toPeerID) = 0
  \/ conns[Lookup(msg.toPeerID)].ws # "OPEN"

\* C3: a relay message whose toPeerID is missing, unregistered or registered
\* with a socket that is not OPEN sends nothing to anyone (the sender
\* included) and changes neither the registry nor any client's state.
C3_RelayDropIsSilent ==
  [][ (/\ last'.op = "message"
       /\ last'.msg.type \in RelayTypes
       /\ NoRelayTarget(last'.msg))
      => /\ sent' = <<>>
         /\ UNCHANGED <<conns, clients, tasks, streams, procs, timers>> ]_vars

\* C3 witness: a relay addressed to a registered client whose socket has closed
C3_Witness ==
  /\ HandledP2P(RelayTypes)
  /\ last.msg.toPeerID # NoId
  /\ Lookup(last.msg.toPeerID) # 0
  /\ conns[Lookup(last.msg.toPeerID)].ws # "OPEN"
  /\ sent = <<>>

\* the answer of the peer connection created by task t
AnswerOf(t) ==
  [type |-> "server-answer", toPeerID |-> NoId, fromPeerID |-> NoId, clientId |-> NoId,
   sdp |-> [kind |-> "answer", ok |-> TRUE, pc |-> t], candidate |-> "none"]

\* C4: when handleServerOffer completes for an offer, that step sends exactly
\* one message, the answer of that offer's peer connection, on a connection of
\* the offering client, which then has a session; and an answer is sent for an
\* offer only by the step that completes it, so never twice and to no other
\* client.
C4_OneAnswerPerOffer ==
  [][ /\ \A t \in 1..Len(tasks') :
           (tasks'[t].stage = "done" /\ (t > Len(tasks) \/ tasks[t].stage # "done"))
           => /\ Len(sent') = 1
              /\ sent'[1].msg = AnswerOf(t)
              /\ conns'[sent'[1].to].id = tasks'[t].id
              /\ conns'[sent'[1].to].peerConnection # 0
      /\ \A i \in 1..Len(sent') :
           sent'[i].msg.type = "server-answer"
           => \E t \in 1..Len(tasks) :
                /\ sent'[i].msg.sdp.pc = t
                /\ tasks[t].stage = "setLocal"
                /\ tasks'[t].stage = "done" ]_vars

\* C4 witness: an offer completed and its answer went out on the open socket
\* of the offering client
C4_Witness ==
  \E t \in 1..Len(tasks) :
    /\ tasks[t].stage = "done"
    /\ sent = << [to |-> tasks[t].conn, open |-> TRUE, msg |-> AnswerOf(t)] >>
    /\ conns[tasks[t].conn].peerConnection = t

\* C5: after handleClientDisconnect(id) ran for a registered id, the registry
\* has no entry for id, every subprocess held by a client with that id has
\* been signalled, every remaining client with an OPEN socket was sent exactly
\* one peer-disconnected naming id, and no client with that id was sent one.
C5_DisconnectCleansUp ==
  [][ \A k \in Conns :
        (/\ conns[k].ev \in {"error", "close"}
         /\ conns'[k].ev # conns[k].ev
         /\ Lookup(conns[k].id) # 0)
        => LET id == conns[k].id
               remaining == {c \in Conns :
                               /\ \E i \in 1..Len(clients') : clients'[i].conn = c
                               /\ conns'[c].ws = "OPEN"}
           IN  /\ \A i \in 1..Len(clients') : clients'[i].id # id
               /\ \A c \in Conns :
                     (conns[c].id = id /\ conns[c].ffmpegProcess # 0)
                     => procs'[conns[c].ffmpegProcess].signalled
               /\ {sent'[i].to : i \in 1..Len(sent')} = remaining
               /\ Len(sent') = Cardinality(remaining)
               /\ \A i \in 1..Len(sent') :
                     /\ sent'[i].msg.type = "peer-disconnected"
                     /\ sent'[i].msg.clientId = id
                     /\ conns[sent'[i].to].id # id ]_vars

\* C6: two consecutive calls of startHLSProcessing for the same client start at
\* most one subprocess between them.
C6_StartIsIdempotent ==
  [][ (/\ last.op = "startHLS"
       /\ last'.op = "startHLS"
       /\ last'.id = last.id)
      => last.spawned + (Len(procs') - Len(procs)) <= 1 ]_vars

\* C7: a connection whose client id is already in the registry is not
\* registered, and the entries already present stay as they are.
C7_DuplicateIdRejected ==
  [][ \A k \in Conns :
        (conns[k].status = "new" /\ conns'[k].status = "live")
        => /\ Lookup(conns'[k].id) = 0
           /\ \A i \in 1..Len(clients) : clients'[i] = clients[i] ]_vars

\* C8: at most one running job writes the published playlist.
C8_SingleWriter ==
  Cardinality({p \in 1..Len(procs) :
                 /\ procs[p].out = "playlist.m3u8"
                 /\ ~procs[p].exited
                 /\ ~procs[p].signalled}) <= 1

\* positions of the registry entries that have a server-mediated session
ActiveIdx == {i \in 1..Len(clients) : conns[clients[i].conn].peerConnection # 0}

C10_SecondOfferRejected ==
  [][ \A c \in Conns :
        (/\ conns[c].peerConnection # 0
         /\ tasks[conns[c].peerConnection].stage = "done")
        => /\ conns'[c].peerConnection = conns[c].peerConnection
           /\ Len(tasks') = Len(tasks) \/ tasks'[Len(tasks')].conn # c
           /\ \A i \in 1..Len(sent') :
                 (sent'[i].msg.type = "server-answer" /\ sent'[i].to = c)
                 => sent' = sent ]_vars

\* C11: when handleServerOffer fails while applying a description, that step
\* sends nothing and leaves the registry as it is, and afterwards the failed
\* peer connection is not the session of any registered client (so it is not
\* counted by startHLSProcessing and handleServerCandidate finds no session).
C11_FailedOfferAbandonsSession ==
  [][ \A t \in 1..Len(tasks) :
        (/\ tasks[t].stage = "setRemote"
         /\ ~tasks[t].closed
         /\ tasks'[t].stage = "failed")
        => /\ sent' = <<>>
           /\ clients' = clients
           /\ \A i \in 1..Len(clients') :
                conns'[clients'[i].conn].peerConnection # t ]_vars

\* C12: handleServerCandidate sends nothing and changes neither the registry
\* nor any other server state, whether or not the transport accepts the
\* candidate; for a client without a session (no offer handled yet, or
\* registered again after it disconnected) it returns at its guard, so
\* addIceCandidate is called on no peer connection and nothing can throw.
C12_CandidateWithoutSession ==
  [][ (last'.op = "message" /\ last'.msg.type = "server-candidate")
      => /\ sent' = <<>>
         /\ UNCHANGED <<conns, clients, tasks, streams, procs, timers>>
         /\ (\/ Lookup(last'.id) = 0
             \/ conns[Lookup(last'.id)].peerConnection = 0)
            => last'.pc = 0 ]_vars

\* C12 witness: a client that completed its offer/answer exchange,
\* disconnected and registered again sends a candidate; the handler returned
\* at its guard
C12_Witness ==
  /\ last.op = "message"
  /\ last.msg.type = "server-candidate"
  /\ last.msg.candidate = "good"
  /\ last.pc = 0
  /\ Lookup(last.id) = last.conn
  /\ \E t \in 1..Len(tasks) :
       /\ tasks[t].id = last.id
       /\ tasks[t].stage = "done"
       /\ tasks[t].closed

\* C13: the process handle a client holds never refers to a process that has
\* errored or exited (the handle is cleared, so that a later
\* startHLSProcessing for the client starts a new job).
C13_ExitClearsHandle ==
  \A k \in Conns :
    conns[k].ffmpegProcess # 0 => ~procs[conns[k].ffmpegProcess].exited

\* C14: after handleClientDisconnect(id) ran for a registered id, every write
\* stream that was opened for the removed client by a video or audio track
\* has been ended.
C14_DisconnectEndsSinks ==
  [][ \A k \in Conns :
        (/\ conns[k].ev \in {"error", "close"}
         /\ conns'[k].ev # conns[k].ev
         /\ Lookup(conns[k].id) # 0)
        => \A s \in 1..Len(streams) :
             streams[s].conn = Lookup(conns[k].id) => streams'[s].ended ]_vars

\* the client id of connection c is absent from the registry although c was
\* accepted: handleClientDisconnect has removed it
Departed(c) == conns[c].status = "live" /\ Lookup(conns[c].id) = 0

\* C15: once handleClientDisconnect has removed a client, its late callbacks
\* do nothing: a timer firing for it spawns no process and stores no handle,
\* no packet callback writes to a stream opened for it, no track callback
\* opens a stream for it, and no candidate callback or completing
\* handleServerOffer calls send on its socket.
C15_LateCallbacksIgnored ==
  [][ /\ (last'.op = "startHLS" /\ Lookup(last'.id) = 0)
         => (procs' = procs /\ conns' = conns)
      /\ \A s \in 1..Len(streams) :
           (streams'[s].written /\ ~streams[s].written)
           => ~Departed(streams[s].conn)
      /\ \A s \in 1..Len(streams') :
           s > Len(streams) => ~Departed(streams'[s].conn)
      /\ \A i \in 1..Len(sent') :
           sent'[i].msg.type \in {"server-answer", "server-candidate"}
           => ~Departed(sent'[i].to) ]_vars

\* C16: negotiations of clients with different ids do not interfere: a step
\* of one negotiation (an await resolving or rejecting) changes neither the
\* other negotiation nor the other client's session and sends nothing to the
\* other client; the session of a client is always a peer connection created
\* for an offer of that client; and an answer is sent only to the client
\* whose offer produced it.
C16_ConcurrentNegotiations ==
  [][ /\ \A a, b \in 1..Len(tasks) :
           (tasks[a].id # tasks[b].id /\ tasks'[a].stage # tasks[a].stage)
           => /\ tasks'[b] = tasks[b]
              /\ conns'[tasks[b].conn].peerConnection
                   = conns[tasks[b].conn].peerConnection
              /\ \A i \in 1..Len(sent') : sent'[i].to # tasks[b].conn
      /\ \A t \in 1..Len(tasks') :
           tasks'[conns'[tasks'[t].conn].peerConnection].id = tasks'[t].id
      /\ \A i \in 1..Len(sent') :
           sent'[i].msg.type = "server-answer"
           => conns'[sent'[i].to].id = tasks'[sent'[i].msg.sdp.pc].id ]_vars

\* C16 witness: client B's negotiation started and failed while client A's,
\* started earlier, was in flight; A's then completed with A's own answer and
\* both clients hold their own peer connection
C16_Witness ==
  /\ Len(tasks) = 2
  /\ tasks[1].id # tasks[2].id
  /\ tasks[1].stage = "done"
  /\ tasks[2].stage = "failed"
  /\ sent = << [to |-> tasks[1].conn, open |-> TRUE, msg |-> AnswerOf(1)] >>
  /\ conns[tasks[1].conn].peerConnection = 1
  /\ conns[tasks[2].conn].peerConnection = 2

\* C17: a connection without a client id is closed with code 1008 in the step
\* that accepts it, which adds nothing to the registry and sends nothing; and
\* from then on it has no handlers: it never changes again (no close or error
\* event is handled for it), it is never the sender of a dispatched message
\* and it is never in the registry.
C17_NoIdRefused ==
  [][ \A k \in Conns :
        /\ (conns[k].status = "new" /\ conns'[k].status = "refused")
           => /\ conns'[k].closeCode = 1008
              /\ conns'[k].ws = "CLOSED"
              /\ clients' = clients
              /\ sent' = <<>>
        /\ conns[k].status = "refused"
           => /\ conns'[k] = conns[k]
              /\ last'.conn # k
              /\ \A i \in 1..Len(clients') : clients'[i].conn # k ]_vars

\* C17 witness: a connection was refused with code 1008 and, after it, a
\* message of a registered client was dispatched
C17_Witness ==
  /\ \E k \in Conns : conns[k].status = "refused" /\ conns[k].closeCode = 1008
  /\ last.op = "message"
  /\ Lookup(last.id) # 0

\* the client ids whose files ffmpeg process p reads
JobClients(p) == {procs[p].video1, procs[p].video2, procs[p].audio} \ {NoId}

\* C18: a process all of whose clients have been removed from the registry
\* has been sent a termination signal (or has exited by itself).
C18_NoJobOutlivesClients ==
  \A p \in 1..Len(procs) :
    (\A id \in JobClients(p) : Lookup(id) = 0)
    => (procs[p].signalled \/ procs[p].exited)

\* C19: when the error event and then the close event fire for a socket and
\* its client id was not registered again in between, the first
\* handleClientDisconnect call sends each remaining client with an OPEN
\* socket exactly one peer-disconnected, and the second call sends nothing,
\* signals no process and changes no state.
C19_DisconnectIdempotent ==
  [][ \A k \in Conns :
        /\ (/\ conns[k].ev = "error"
            /\ conns'[k].ev = "close"
            /\ Lookup(conns[k].id) # 0)
           => /\ \A i \in 1..Len(sent') :
                   /\ sent'[i].msg = PeerDisconnectedMsg(conns[k].id)
                   /\ \A j \in 1..Len(sent') : sent'[j].to = sent'[i].to => j = i
              /\ {sent'[i].to : i \in 1..Len(sent')}
                   = {clients'[i].conn : i \in 1..Len(clients')}
                       \cap {c \in Conns : conns'[c].ws = "OPEN"}
        /\ (/\ conns[k].errored
            /\ conns[k].ev = "close"
            /\ conns'[k].ev = "done"
            /\ Lookup(conns[k].id) = 0)
           => /\ sent' = <<>>
              /\ UNCHANGED <<clients, tasks, streams, procs, timers>>
              /\ \A c \in Conns : c # k => conns'[c] = conns[c] ]_vars

\* C19 witness: both the error and the close event of a socket have been
\* handled, its client id is not registered, and another client with an OPEN
\* socket is registered
C19_Witness ==
  \E k \in Conns :
    /\ conns[k].errored
    /\ conns[k].ev = "done"
    /\ Lookup(conns[k].id) = 0
    /\ sent = <<>>
    /\ \E c \in Conns : c # k /\ Registered(c) /\ IsOpen(c)
====
